---------------------------- MODULE Spec2Model ----------------------------
(***************************************************************************)
(* Model of src/metadata_tool.py: GovernmentDataAnalyzer.                   *)
(*                                                                         *)
(* JSON values are tagged records; a string is the sequence of the         *)
(* whitespace-separated words it holds, and `p in s` is decided per word   *)
(* by the table PatternsIn, which was computed with Python's `in`.         *)
(* Floats are exact rationals [num, den].                                  *)
(***************************************************************************)
EXTENDS Integers, Sequences, FiniteSets, TLC

(***************************************************************************)
(* Bounds of the model.                                                    *)
(***************************************************************************)
\* the sample sizes run_analysis is called with are 1..MaxSample
MaxSample == 2
\* a portal's answer lists at most MaxRecords dataset records
MaxRecords == 2

(***************************************************************************)
(* Sequence helpers.                                                       *)
(***************************************************************************)
Range(s) == {s[i] : i \in DOMAIN s}

Min(a, b) == IF a <= b THEN a ELSE b

\* s[:n] of Python, n >= 0
Take(s, n) == SubSeq(s, 1, Min(n, Len(s)))

RECURSIVE SumInts(_)
\* sum(...) of Python over a list of ints, left to right from 0
SumInts(s) == IF s = <<>> THEN 0 ELSE SumInts(SubSeq(s, 1, Len(s) - 1)) + s[Len(s)]

RECURSIVE Flatten(_)
\* [x for l in s for x in l]
Flatten(s) == IF s = <<>> THEN <<>> ELSE Head(s) \o Flatten(Tail(s))

RECURSIVE SetToSeq(_)
SetToSeq(S) == IF S = {} THEN <<>>
               ELSE LET x == CHOOSE y \in S : TRUE IN <<x>> \o SetToSeq(S \ {x})

\* list(set(s)): the distinct elements of s, each once; Python's order is
\* the hash order of the set, modelled as one fixed order per set
ListOfSet(s) == SetToSeq(Range(s))

(***************************************************************************)
(* Floats as exact rationals.                                              *)
(***************************************************************************)
RECURSIVE GCD(_, _)
GCD(a, b) == IF b = 0 THEN a ELSE GCD(b, a % b)

\* the fraction n/d, d > 0, in lowest terms
Rat(n, d) == [num |-> n \div GCD(n, d), den |-> d \div GCD(n, d)]

RatAdd(a, b) == Rat(a.num * b.den + b.num * a.den, a.den * b.den)

RatDivInt(a, n) == Rat(a.num, a.den * n)

RatLt(a, b) == a.num * b.den < b.num * a.den

RatEq(a, b) == a.num * b.den = b.num * a.den

RatLe(a, b) == a.num * b.den <= b.num * a.den

RECURSIVE SumRats(_)
\* sum(...) of Python over a list of floats, left to right from 0
SumRats(s) == IF s = <<>> THEN Rat(0, 1)
              ELSE RatAdd(SumRats(SubSeq(s, 1, Len(s) - 1)), s[Len(s)])

\* sum(xs) / len(xs)
Mean(s) == RatDivInt(SumRats(s), Len(s))

(***************************************************************************)
(* JSON values.                                                            *)
(***************************************************************************)
Str(toks) == [kind |-> "str", toks |-> toks, items |-> <<>>]

Item(k, v) == [k |-> k, v |-> v]

\* a JSON object: items are key/value pairs in document order
Dict(items) == [kind |-> "dict", toks |-> <<>>, items |-> items]

\* a JSON array: the keys of its items are unused
List(vals) == [kind |-> "list", toks |-> <<>>,
               items |-> [i \in DOMAIN vals |-> Item("", vals[i])]]

Null == [kind |-> "null", toks |-> <<>>, items |-> <<>>]

Elems(v) == [i \in DOMAIN v.items |-> v.items[i].v]

\* bool(v) of Python
Truthy(v) == CASE v.kind = "str" -> v.toks # <<>>
               [] v.kind = "null" -> FALSE
               [] OTHER -> v.items # <<>>

\* `k in v` for a dict (a list holds none of the keys used here)
HasKey(v, k) == v.kind = "dict" /\ \E i \in DOMAIN v.items : v.items[i].k = k

\* v[k] for a dict that has the key
Get(v, k) == v.items[CHOOSE i \in DOMAIN v.items : v.items[i].k = k].v

\* len(v) of a list or a dict
PyLen(v) == Len(v.items)

(***************************************************************************)
(* Strings: str.lower(), `in`, and the identifier regexes, per word.       *)
(***************************************************************************)
LowerOf ==
    "Air" :> "air"
    @@ "dcat:Dataset" :> "dcat:dataset"
    @@ "dcat:contactPoint" :> "dcat:contactpoint"
    @@ "Environment" :> "environment"
    @@ "None" :> "none"
    @@ "License" :> "license"
    @@ "Title" :> "title"
    @@ "Modified" :> "modified"

Lower(s) == IF s \in DOMAIN LowerOf THEN LowerOf[s] ELSE s

LowerToks(toks) == [i \in DOMAIN toks |-> Lower(toks[i])]

\* the registry patterns p with `p in t` (case-sensitive), for the words used
PatternsIn(t) ==
    CASE t = "title" -> {"it", "title"}
      [] t = "notes" -> {"es"}
      [] t = "license" -> {"en", "license"}
      [] t = "license_url" -> {"en", "license", "url"}
      [] t = "en" -> {"en"}
      [] t = "fr" -> {"fr"}
      [] t = "dcat:theme" -> {"dcat:theme"}
      [] t = "dcat:dataset" -> {"dcat:dataset"}
      [] t = "dc:title" -> {"dc:title", "it", "title"}
      [] t = "dc:publisher" -> {"dc:publisher", "publisher"}
      [] t = "cc-by-sa" -> {"cc-by", "cc-by-sa"}
      [] t = "odbl" -> {"odbl"}
      [] t = "http://example.org/cc-by" -> {"cc-by", "http"}
      [] t = "Environment" -> {"en"}
      [] t = "environment" -> {"environment", "en"}
      [] t = "health" -> {"health"}
      [] t = "dcat:distribution" -> {"dcat:distribution"}
      [] t = "dcat:keyword" -> {"dcat:keyword"}
      [] t = "dcat:contactpoint" -> {"dcat:contactpoint"}
      [] t = "dcat:publisher" -> {"dcat:publisher", "publisher"}
      [] t = "dcat:temporal" -> {"dcat:temporal"}
      [] t = "dcat:spatial" -> {"dcat:spatial"}
      [] t = "cc-by" -> {"cc-by"}
      [] t = "License" -> {"en"}
      [] t = "url" -> {"url"}
      [] t = "Title" -> {"it"}
      [] t = "modified" -> {"modified"}
      [] t = "economy" -> {"economy"}
      [] t = "education" -> {"education"}
      [] t = "government" -> {"government", "en"}
      [] t = "society" -> {"society"}
      [] OTHER -> {}

\* `p in s` for a string s given as its words
In(p, toks) == \E i \in DOMAIN toks : p \in PatternsIn(toks[i])

ZeroIds == [doi |-> 0, urn |-> 0, uuid |-> 0, handle |-> 0]

\* len(pattern.findall(t)) for each of persistent_id_patterns
IdMatches(t) ==
    CASE t = "10.1234/abc" -> [ZeroIds EXCEPT !.doi = 1]
      [] t = "123e4567-e89b-12d3-a456-426614174000" -> [ZeroIds EXCEPT !.uuid = 1]
      [] t = "urn:isbn:0451450523" -> [ZeroIds EXCEPT !.urn = 1]
      [] t = "hdl.handle.net/20.500.12345/abc" -> [ZeroIds EXCEPT !.handle = 1]
      [] OTHER -> ZeroIds

RECURSIVE Ser(_)
\* the words of json.dumps(v, default=str): keys and values, in document order
Ser(v) ==
    CASE v.kind = "str" -> v.toks
      [] v.kind = "null" -> <<"null">>
      [] OTHER -> Flatten([i \in DOMAIN v.items |->
                     (IF v.kind = "dict" THEN <<v.items[i].k>> ELSE <<>>)
                        \o Ser(v.items[i].v)])

RECURSIVE PyStr(_)
\* the words of str(v): a string itself, the repr of a dict or a list
PyStr(v) ==
    CASE v.kind = "str" -> v.toks
      [] v.kind = "null" -> <<"None">>
      [] OTHER -> Flatten([i \in DOMAIN v.items |->
                     (IF v.kind = "dict" THEN <<v.items[i].k>> ELSE <<>>)
                        \o PyStr(v.items[i].v)])

(***************************************************************************)
(* The pattern registry (GovernmentDataAnalyzer.__init__).                 *)
(***************************************************************************)
portals == <<"Germany", "Italy", "Spain", "Netherlands", "France">>

dcat_fields ==
    <<"dcat:Dataset", "dcat:distribution", "dcat:keyword", "dcat:theme",
      "dcat:contactPoint", "dcat:publisher", "dcat:temporal", "dcat:spatial">>

dublin_core_fields ==
    <<"dc:title", "dc:creator", "dc:subject", "dc:description", "dc:publisher",
      "dc:contributor", "dc:date", "dc:type", "dc:format", "dc:identifier",
      "dc:source", "dc:language", "dc:relation", "dc:coverage", "dc:rights">>

cc_licenses ==
    <<"cc-by", "cc-by-sa", "cc-by-nc", "cc-by-nd", "cc-by-nc-sa", "cc-by-nc-nd",
      "cc0", "creative-commons">>

standard_themes ==
    <<"economy", "education", "environment", "government", "health",
      "society", "transport", "science", "agriculture", "energy">>

language_indicators == <<"en", "de", "fr", "es", "it", "nl", "language", "lang">>

multilingual_langs == <<"en", "de", "fr", "es", "it", "nl">>

essential_fields == <<"title", "description", "license", "publisher", "modified">>

\* the bug of sum(1 for f in fields), which has lost its condition
CountIf_all(flags) == Len(flags)

\* sum(1 for f in fields if cond(f)), flags[i] being cond(fields[i])
CountIf(flags) == Cardinality({i \in DOMAIN flags : flags[i]})


(***************************************************************************)
(* The five per-dataset analyzers.  Each is defined for a record that is   *)
(* a dict; on anything else dataset.values() / dataset.items() raises      *)
(* AttributeError (see Raises).                                            *)
(***************************************************************************)
\* the bug of dc_score = dc_matches / len(self.dcat_fields) * 100
analyze_metadata_standards_dcat_len(dataset) ==
    LET dataset_str == LowerToks(Ser(dataset))
        dcat_matches == CountIf([i \in DOMAIN dcat_fields |-> In(Lower(dcat_fields[i]), dataset_str)])
        dc_matches == CountIf([i \in DOMAIN dublin_core_fields |-> In(Lower(dublin_core_fields[i]), dataset_str)])
        completeness ==
            CountIf([j \in DOMAIN essential_fields |->
                        \E i \in DOMAIN dataset.items :
                            /\ Truthy(dataset.items[i].v)
                            /\ In(essential_fields[j], LowerToks(PyStr(dataset.items[i].v)))])
    IN  [dcat_score |-> Rat(dcat_matches * 100, Len(dcat_fields)),
         dublin_core_score |-> Rat(dc_matches * 100, Len(dcat_fields)),
         completeness_score |-> Rat(completeness * 100, Len(essential_fields))]

analyze_metadata_standards(dataset) ==
    LET dataset_str == LowerToks(Ser(dataset))
        dcat_matches == CountIf([i \in DOMAIN dcat_fields |-> In(Lower(dcat_fields[i]), dataset_str)])
        dc_matches == CountIf([i \in DOMAIN dublin_core_fields |-> In(Lower(dublin_core_fields[i]), dataset_str)])
        completeness ==
            CountIf([j \in DOMAIN essential_fields |->
                        \E i \in DOMAIN dataset.items :
                            /\ Truthy(dataset.items[i].v)
                            /\ In(essential_fields[j], LowerToks(PyStr(dataset.items[i].v)))])
    IN  [dcat_score |-> Rat(dcat_matches * 100, Len(dcat_fields)),
         dublin_core_score |-> Rat(dc_matches * 100, Len(dublin_core_fields)),
         completeness_score |-> Rat(completeness * 100, Len(essential_fields))]

\* the keys of the record that hold 'license', in document order
LicenseItems(dataset) ==
    SelectSeq(dataset.items, LAMBDA it : In("license", <<Lower(it.k)>>))

\* the bug of a license-URL flag that looks for 'http' only
analyze_licensing_http_only(dataset) ==
    LET dataset_str == LowerToks(Ser(dataset))
        cc_count == CountIf([i \in DOMAIN cc_licenses |-> In(cc_licenses[i], dataset_str)])
        odbl_count == IF In("odbl", dataset_str) \/ In("open database license", dataset_str)
                      THEN 1 ELSE 0
        truthy == SelectSeq(LicenseItems(dataset), LAMBDA it : Truthy(it.v))
        license_info == [i \in DOMAIN truthy |-> LowerToks(PyStr(truthy[i].v))]
        has_structured_license == LicenseItems(dataset) # <<>>
        has_license_url ==
            \E i \in DOMAIN truthy : In("http", PyStr(truthy[i].v))
    IN  [cc_licenses |-> cc_count,
         odbl_licenses |-> odbl_count,
         automation_score |-> Rat((IF has_structured_license THEN 50 ELSE 0)
                                    + (IF has_license_url THEN 50 ELSE 0), 1),
         license_variety |-> license_info]

analyze_licensing(dataset) ==
    LET dataset_str == LowerToks(Ser(dataset))
        cc_count == CountIf([i \in DOMAIN cc_licenses |-> In(cc_licenses[i], dataset_str)])
        odbl_count == IF In("odbl", dataset_str) \/ In("open database license", dataset_str)
                      THEN 1 ELSE 0
        truthy == SelectSeq(LicenseItems(dataset), LAMBDA it : Truthy(it.v))
        license_info == [i \in DOMAIN truthy |-> LowerToks(PyStr(truthy[i].v))]
        has_structured_license == LicenseItems(dataset) # <<>>
        has_license_url ==
            \E i \in DOMAIN truthy : In("http", PyStr(truthy[i].v)) \/ In("url", PyStr(truthy[i].v))
    IN  [cc_licenses |-> cc_count,
         odbl_licenses |-> odbl_count,
         automation_score |-> Rat((IF has_structured_license THEN 50 ELSE 0)
                                    + (IF has_license_url THEN 50 ELSE 0), 1),
         license_variety |-> license_info]

\* a dict that keeps insertion order: entries [k, n]
MapKeys(m) == [i \in DOMAIN m |-> m[i].k]

MapGet(m, k) == IF \E i \in DOMAIN m : m[i].k = k
                THEN m[CHOOSE i \in DOMAIN m : m[i].k = k].n
                ELSE 0

\* the bug of m[k] = n, which forgets the count so far
MapAdd_overwrite(m, k, n) ==
    IF \E i \in DOMAIN m : m[i].k = k
    THEN [i \in DOMAIN m |-> IF m[i].k = k THEN [k |-> k, n |-> n] ELSE m[i]]
    ELSE Append(m, [k |-> k, n |-> n])

\* m[k] = m.get(k, 0) + n: a new key goes last
MapAdd(m, k, n) ==
    IF \E i \in DOMAIN m : m[i].k = k
    THEN [i \in DOMAIN m |-> IF m[i].k = k THEN [k |-> k, n |-> m[i].n + n] ELSE m[i]]
    ELSE Append(m, [k |-> k, n |-> n])

RECURSIVE ThemeMatches(_, _)
\* the loop over standard_themes[1..j]
ThemeMatches(dataset_str, j) ==
    IF j = 0 THEN <<>>
    ELSE LET before == ThemeMatches(dataset_str, j - 1)
         IN  IF In(standard_themes[j], dataset_str)
             THEN MapAdd(before, standard_themes[j], 1)
             ELSE before

analyze_vocabularies(dataset) ==
    LET dataset_str == LowerToks(Ser(dataset))
        theme_matches == ThemeMatches(dataset_str, Len(standard_themes))
        score == Rat(Len(theme_matches) * 100, Len(standard_themes))
    IN  [standardization_score |-> IF RatLe(score, Rat(100, 1)) THEN score ELSE Rat(100, 1),
         theme_matches |-> theme_matches]

analyze_multilingual_support(dataset) ==
    LET dataset_str == LowerToks(Ser(dataset))
        detected_languages == SelectSeq(language_indicators, LAMBDA l : In(l, dataset_str))
        multilingual_fields ==
            Cardinality({i \in DOMAIN dataset.items :
                /\ dataset.items[i].v.kind = "dict"
                /\ \E j \in DOMAIN multilingual_langs :
                      In(multilingual_langs[j], LowerToks(PyStr(dataset.items[i].v)))})
    IN  [multilingual_score |-> Rat(Min(multilingual_fields * 20, 100), 1),
         detected_languages |-> ListOfSet(detected_languages)]

\* the bug of a score over the identifier types that matched (the comment
\* of line 230: "Max 4 different types for 100%") instead of the matches
analyze_persistent_identifiers_types(dataset) ==
    LET dataset_str == Ser(dataset)
        count(id_type) == SumInts([i \in DOMAIN dataset_str |-> IdMatches(dataset_str[i])[id_type]])
        total_persistent_ids ==
            Cardinality({id_type \in {"doi", "urn", "uuid", "handle"} : count(id_type) > 0})
    IN  [doi |-> count("doi"), urn |-> count("urn"),
         uuid |-> count("uuid"), handle |-> count("handle"),
         persistence_score |-> Rat(Min(total_persistent_ids * 25, 100), 1)]

\* the bug of a score that is not capped at 100
analyze_persistent_identifiers_uncapped(dataset) ==
    LET dataset_str == Ser(dataset)
        count(id_type) == SumInts([i \in DOMAIN dataset_str |-> IdMatches(dataset_str[i])[id_type]])
        total_persistent_ids == count("doi") + count("urn") + count("uuid") + count("handle")
    IN  [doi |-> count("doi"), urn |-> count("urn"),
         uuid |-> count("uuid"), handle |-> count("handle"),
         persistence_score |-> Rat(total_persistent_ids * 25, 1)]

analyze_persistent_identifiers(dataset) ==
    LET dataset_str == Ser(dataset)
        count(id_type) == SumInts([i \in DOMAIN dataset_str |-> IdMatches(dataset_str[i])[id_type]])
        total_persistent_ids == count("doi") + count("urn") + count("uuid") + count("handle")
    IN  [doi |-> count("doi"), urn |-> count("urn"),
         uuid |-> count("uuid"), handle |-> count("handle"),
         persistence_score |-> Rat(Min(total_persistent_ids * 25, 100), 1)]

\* dataset.values() and dataset.items() exist on a dict only: the first
\* analyzer called on any other record raises AttributeError
Raises(dataset) == dataset.kind # "dict"

(***************************************************************************)
(* Dataset records the portals answer with.                                *)
(***************************************************************************)
R_empty == Dict(<<>>)

R_plain == Dict(<<Item("name", Str(<<"Air">>))>>)

R_dcat == Dict(<<Item("title", Str(<<"dcat:Dataset", "dcat:theme", "health">>)),
                 Item("license", Str(<<"cc-by-sa">>))>>)

R_lic == Dict(<<Item("license_url", Str(<<"http://example.org/cc-by">>)),
                Item("theme", Str(<<"Environment", "health">>)),
                Item("notes", Str(<<"dcat:theme">>))>>)

R_ids == Dict(<<Item("id", Str(<<"10.1234/abc">>)),
                Item("notes", Str(<<"123e4567-e89b-12d3-a456-426614174000", "health">>)),
                Item("license", Str(<<"cc-by-sa">>))>>)

R_multi == Dict(<<Item("translations", Dict(<<Item("en", Str(<<"Air">>)),
                                              Item("fr", Str(<<"dc:title">>))>>)),
                  Item("notes", Str(<<"odbl", "environment">>))>>)

R_manyids == Dict(<<Item("id", Str(<<"10.1234/abc", "10.1234/abc", "10.1234/abc",
                                       "10.1234/abc", "10.1234/abc">>))>>)

\* an entry of Italy's package_list: a package name, not a key/value document
R_name == Str(<<"pkg-a">>)

(***************************************************************************)
(* InteroperabilityMetrics and aggregate_metrics.                          *)
(***************************************************************************)
\* InteroperabilityMetrics(country=country): every other field at its default
NewMetrics(country) ==
    [country |-> country,
     total_datasets |-> 0,
     dcat_compliance_score |-> Rat(0, 1),
     dublin_core_compliance_score |-> Rat(0, 1),
     metadata_completeness_score |-> Rat(0, 1),
     cc_licenses |-> 0,
     odbl_licenses |-> 0,
     automated_license_detection_score |-> Rat(0, 1),
     license_variety |-> <<>>,
     standardized_terminology_score |-> Rat(0, 1),
     taxonomy_usage |-> <<>>,
     multilingual_support_score |-> Rat(0, 1),
     supported_languages |-> <<>>,
     doi_count |-> 0,
     urn_count |-> 0,
     uuid_count |-> 0,
     handle_count |-> 0,
     persistent_id_score |-> Rat(0, 1),
     api_response_time |-> 0,
     api_success_rate |-> 0]

\* [r[f] for r in s]
Col(s, f) == [i \in DOMAIN s |-> s[i][f]]

RECURSIVE MergeThemes(_, _)
\* for theme, count in theme_matches.items(): all_themes[theme] += count
MergeThemes(all_themes, theme_matches) ==
    IF theme_matches = <<>> THEN all_themes
    ELSE MergeThemes(MapAdd(all_themes, Head(theme_matches).k, Head(theme_matches).n),
                     Tail(theme_matches))

\* the bug of all_themes = v['theme_matches'], which keeps the themes of the
\* last record only
AllThemes_last(vocabulary_data) ==
    IF vocabulary_data = <<>> THEN <<>>
    ELSE vocabulary_data[Len(vocabulary_data)].theme_matches

RECURSIVE AllThemes(_)
\* the loop over vocabulary_data, first record first
AllThemes(vocabulary_data) ==
    IF vocabulary_data = <<>> THEN <<>>
    ELSE MergeThemes(AllThemes(SubSeq(vocabulary_data, 1, Len(vocabulary_data) - 1)),
                     vocabulary_data[Len(vocabulary_data)].theme_matches)

aggregate_metrics(metrics, metadata_scores, license_data, vocabulary_data, multilingual_data, persistent_id_data) ==
    IF metadata_scores = <<>> THEN metrics
    ELSE [metrics EXCEPT
            !.dcat_compliance_score = Mean(Col(metadata_scores, "dcat_score")),
            !.dublin_core_compliance_score = Mean(Col(metadata_scores, "dublin_core_score")),
            !.metadata_completeness_score = Mean(Col(metadata_scores, "completeness_score")),
            !.cc_licenses = SumInts(Col(license_data, "cc_licenses")),
            !.odbl_licenses = SumInts(Col(license_data, "odbl_licenses")),
            !.automated_license_detection_score = Mean(Col(license_data, "automation_score")),
            !.license_variety = ListOfSet(Flatten(Col(license_data, "license_variety"))),
            !.standardized_terminology_score =
                Mean(Col(vocabulary_data, "standardization_score")),
            !.taxonomy_usage = AllThemes(vocabulary_data),
            !.multilingual_support_score = Mean(Col(multilingual_data, "multilingual_score")),
            !.supported_languages =
                ListOfSet(Flatten(Col(multilingual_data, "detected_languages"))),
            !.doi_count = SumInts(Col(persistent_id_data, "doi")),
            !.urn_count = SumInts(Col(persistent_id_data, "urn")),
            !.uuid_count = SumInts(Col(persistent_id_data, "uuid")),
            !.handle_count = SumInts(Col(persistent_id_data, "handle")),
            !.persistent_id_score = Mean(Col(persistent_id_data, "persistence_score"))]

(***************************************************************************)
(* extract_datasets.                                                       *)
(***************************************************************************)
\* data['result'][:50]
italy_limit == 50

\* `key in data` raises TypeError on None
KeyInRaises(data) == data.kind = "null"

\* `key in data`: a key of a dict, an element of a list
KeyIn(key, data) ==
    \/ HasKey(data, key)
    \/ data.kind = "list" /\ \E i \in DOMAIN data.items : data.items[i].v = Str(<<key>>)

\* The value extract_datasets returns: the list it starts with when an
\* exception was caught or no branch assigned.  The documents here hold no
\* string under 'result', 'results' or 'data'.
extract_datasets(data, country) ==
    LET empty == List(<<>>)
    IN  CASE country \in {"Germany", "Netherlands"} ->
               IF KeyInRaises(data) \/ ~KeyIn("result", data) THEN empty
               ELSE IF data.kind # "dict" THEN empty  \* data['result'] on a list: TypeError
               ELSE LET r == Get(data, "result")
                    IN  IF KeyInRaises(r) \/ ~KeyIn("results", r) THEN empty
                        ELSE IF r.kind # "dict" THEN empty
                        ELSE Get(r, "results")
          [] country = "Italy" ->
               IF KeyInRaises(data) \/ ~KeyIn("result", data) THEN empty
               ELSE IF data.kind # "dict" THEN empty
               ELSE LET r == Get(data, "result")
                    IN  IF r.kind = "list" THEN List(Take(Elems(r), italy_limit))
                        ELSE empty   \* a dict or None cannot be sliced: TypeError
          [] country = "France" ->
               IF KeyInRaises(data) \/ ~KeyIn("data", data) THEN empty
               ELSE IF data.kind # "dict" THEN empty
               ELSE Get(data, "data")
          [] country = "Spain" ->
               IF data.kind = "list" THEN data
               ELSE IF KeyInRaises(data) \/ ~KeyIn("result", data) THEN empty
               ELSE Get(data, "result")
          [] OTHER -> empty

(***************************************************************************)
(* generate_report.                                                        *)
(***************************************************************************)
Reverse(s) == [i \in DOMAIN s |-> s[Len(s) + 1 - i]]

\* insertion of x behind every element whose key is not greater
InsertAsc(sorted, x, key) ==
    LET n == Cardinality({i \in DOMAIN sorted : RatLe(sorted[i][key], x[key])})
    IN  SubSeq(sorted, 1, n) \o <<x>> \o SubSeq(sorted, n + 1, Len(sorted))

RECURSIVE StableSortAsc(_, _)
StableSortAsc(s, key) ==
    IF s = <<>> THEN <<>>
    ELSE InsertAsc(StableSortAsc(SubSeq(s, 1, Len(s) - 1), key), s[Len(s)], key)

\* the bug of sorting in ascending order and reversing the result, which
\* turns equal elements around
SortedReverse_unstable(s, key) == Reverse(StableSortAsc(s, key))

\* sorted(s, key=lambda x: x.<key>, reverse=True): the list is reversed,
\* sorted stably in ascending order and reversed again
SortedReverse(s, key) == Reverse(StableSortAsc(Reverse(s), key))

RECURSIVE PyMax(_, _)
\* max(s, key=lambda x: x.<key>) of a non-empty list: a later element wins
\* only if it is greater
PyMax(s, key) ==
    IF Len(s) = 1 THEN s[1]
    ELSE LET best == PyMax(SubSeq(s, 1, Len(s) - 1), key)
         IN  IF RatLt(best[key], s[Len(s)][key]) THEN s[Len(s)] ELSE best

RECURSIVE PyMin(_, _)
\* min(s, key=lambda x: x.<key>) of a non-empty list: a later element wins
\* only if it is smaller
PyMin(s, key) ==
    IF Len(s) = 1 THEN s[1]
    ELSE LET best == PyMin(SubSeq(s, 1, Len(s) - 1), key)
         IN  IF RatLt(s[Len(s)][key], best[key]) THEN s[Len(s)] ELSE best

\* one "COUNTRY:" section of the report
Section(m) ==
    [country |-> m.country,
     total_datasets |-> m.total_datasets,
     dcat_compliance_score |-> m.dcat_compliance_score,
     license_variety_count |-> Len(m.license_variety),
     top_themes |-> Take(MapKeys(m.taxonomy_usage), 5),
     supported_languages |-> m.supported_languages]

NoReport ==
    [raised |-> FALSE, countries_analyzed |-> 0, avg_dcat |-> Rat(0, 1),
     sections |-> <<>>, best_dcat |-> "", worst_dcat |-> "",
     best_multilingual |-> "", best_licensing |-> ""]

\* the bug of all_metrics.sort(key=..., reverse=True), which sorts the
\* caller's list
InputAfterReport_sorted_in_place(ms) == SortedReverse(ms, "dcat_compliance_score")

\* the caller's list once generate_report is over: sorted() builds a new
\* list, max() and min() only read, no field is assigned
InputAfterReport(ms) == ms

\* the report, or raised = TRUE for the ZeroDivisionError of the averages
generate_report(all_metrics) ==
    IF Len(all_metrics) = 0 THEN [NoReport EXCEPT !.raised = TRUE]
    ELSE LET sorted == SortedReverse(all_metrics, "dcat_compliance_score")
         IN  [raised |-> FALSE,
              countries_analyzed |-> Len(all_metrics),
              avg_dcat |-> Mean(Col(all_metrics, "dcat_compliance_score")),
              sections |-> [i \in DOMAIN sorted |-> Section(sorted[i])],
              best_dcat |-> PyMax(all_metrics, "dcat_compliance_score").country,
              worst_dcat |-> PyMin(all_metrics, "dcat_compliance_score").country,
              best_multilingual |-> PyMax(all_metrics, "multilingual_support_score").country,
              best_licensing |-> PyMax(all_metrics, "automated_license_detection_score").country]

(***************************************************************************)
(* The documents a portal answers with.                                    *)
(***************************************************************************)
\* CKAN package_search (Germany, Netherlands)
CkanDoc(recs) == Dict(<<Item("result", Dict(<<Item("results", List(recs))>>))>>)

\* package_list (Italy), and the object form of Spain's catalogue
ResultDoc(recs) == Dict(<<Item("result", List(recs))>>)

\* data.gouv.fr (France)
DataDoc(recs) == Dict(<<Item("data", List(recs))>>)

\* documents of another shape than the portal's
EmptyDoc == Dict(<<>>)

ResultObjectDoc == Dict(<<Item("result", Dict(<<Item("count", Str(<<"Air">>))>>))>>)

DataNullDoc == Dict(<<Item("data", Null)>>)

OtherDocs == {EmptyDoc, ResultObjectDoc, DataNullDoc}

\* the sequences over S of length 0..n
SeqsUpTo(S, n) == UNION {[1..m -> S] : m \in 0..n}

DocsOf(country, recLists) ==
    OtherDocs \cup
    CASE country \in {"Germany", "Netherlands"} -> {CkanDoc(r) : r \in recLists}
      [] country = "Italy" -> {ResultDoc(r) : r \in recLists}
      [] country = "France" -> {DataDoc(r) : r \in recLists}
      [] OTHER -> {ResultDoc(r) : r \in recLists} \cup {List(r) : r \in recLists}

\* the records of the whole run, and of a single portal analysis
RunRecords == {R_dcat, R_name}

AllRecords == {R_empty, R_plain, R_dcat, R_lic, R_ids, R_manyids, R_multi, R_name}

RunLists == SeqsUpTo(RunRecords, MaxRecords)

AllLists == SeqsUpTo(AllRecords, MaxRecords)

(***************************************************************************)
(* State.                                                                  *)
(***************************************************************************)
VARIABLES
    typed,                  \* main: the characters input() returned
    sample_size,            \* run_analysis(sample_size)
    idx,                    \* position of the loop over self.portals
    pc,                     \* where the run is
    all_metrics,            \* run_analysis: the metrics collected so far
    output,                 \* what run_analysis returned
    params,                 \* analyze_country_portal: the query parameters
    attempt,                \* fetch_data_with_retry: the loop variable
    slept,                  \* seconds of time.sleep in the last step (0: none)
    result,                 \* what fetch_data_with_retry returned
    metrics,                \* analyze_country_portal: its metrics object
    datasets,               \* what extract_datasets returned
    analyzed,               \* the records handed to the analyzers, in order
    all_metadata_scores,
    all_license_data,
    all_vocabulary_data,
    all_multilingual_data,
    all_persistent_id_data

lists == <<all_metadata_scores, all_license_data, all_vocabulary_data,
           all_multilingual_data, all_persistent_id_data>>

locals == <<params, attempt, result, metrics, datasets, analyzed, lists>>

vars == <<typed, sample_size, idx, pc, all_metrics, output, slept, locals>>

\* main has read nothing
NoInput == <<>>

\* def fetch_data_with_retry(self, url, params=None, max_retries=3)
max_retries == 3

\* time.sleep(1) after a completed country
rate_limit_pause == 1

FetchFailure == [success |-> FALSE, data |-> Null, response_time |-> 0]

NoOutput == [kind |-> "none", report |-> NoReport, json |-> <<>>]

country == portals[idx]

\* the query parameters analyze_country_portal picks from the portal's URL
ParamsOf(c, n) ==
    CASE c \in {"Germany", "Netherlands"} -> [name |-> "rows", n |-> n]
      [] c = "Italy" -> [name |-> "none", n |-> 0]
      [] c = "France" -> [name |-> "page_size", n |-> n]
      [] OTHER -> [name |-> "limit", n |-> n]

\* datasets[:sample_size] of a list
sampled == Take(Elems(datasets), sample_size)

\* the locals of a fresh analyze_country_portal(c, url, sample_size) call,
\* up to its call of fetch_data_with_retry
EnterPortal(c) ==
    /\ params' = ParamsOf(c, sample_size)
    /\ metrics' = NewMetrics(c)
    /\ attempt' = 0
    /\ result' = FetchFailure
    /\ datasets' = List(<<>>)
    /\ analyzed' = <<>>
    /\ all_metadata_scores' = <<>>
    /\ all_license_data' = <<>>
    /\ all_vocabulary_data' = <<>>
    /\ all_multilingual_data' = <<>>
    /\ all_persistent_id_data' = <<>>

\* no analyze_country_portal call is active: its locals hold nothing
NoLocals ==
    /\ params = [name |-> "none", n |-> 0]
    /\ metrics = NewMetrics("")
    /\ attempt = 0
    /\ result = FetchFailure
    /\ datasets = List(<<>>)
    /\ analyzed = <<>>
    /\ all_metadata_scores = <<>>
    /\ all_license_data = <<>>
    /\ all_vocabulary_data = <<>>
    /\ all_multilingual_data = <<>>
    /\ all_persistent_id_data = <<>>

\* analyze_country_portal is left: its locals are gone
LeavePortal ==
    /\ params' = [name |-> "none", n |-> 0]
    /\ metrics' = NewMetrics("")
    /\ attempt' = 0
    /\ result' = FetchFailure
    /\ datasets' = List(<<>>)
    /\ analyzed' = <<>>
    /\ all_metadata_scores' = <<>>
    /\ all_license_data' = <<>>
    /\ all_vocabulary_data' = <<>>
    /\ all_multilingual_data' = <<>>
    /\ all_persistent_id_data' = <<>>

Init ==
    /\ typed = NoInput
    /\ sample_size \in 1..MaxSample
    /\ idx = 1
    /\ pc = "run"
    /\ all_metrics = <<>>
    /\ output = NoOutput
    /\ slept = 0
    /\ NoLocals

(***************************************************************************)
(* run_analysis: the loop over the portals.                                *)
(***************************************************************************)
\* for country, url in self.portals.items(): analyze_country_portal(...)
StartPortal ==
    /\ pc = "run"
    /\ idx <= Len(portals)
    /\ EnterPortal(country)
    /\ pc' = "fetch"
    /\ slept' = 0
    /\ UNCHANGED <<typed, sample_size, idx, all_metrics, output>>

(***************************************************************************)
(* fetch_data_with_retry: one pass of `for attempt in range(max_retries)`. *)
(***************************************************************************)
FetchOutcomes == {"ok", "http_error", "timeout", "connection_error", "invalid_json"}

\* the outcomes that raise inside the try block
FetchExceptions == {"timeout", "connection_error", "invalid_json"}

\* the sleep of the except branch
Backoff(outcome, a) ==
    IF outcome \in FetchExceptions /\ a < max_retries - 1 THEN 2 ^ a ELSE 0

FetchAttempt(docs) ==
    /\ pc = "fetch"
    /\ attempt < max_retries
    /\ \E outcome \in FetchOutcomes :
         IF outcome = "ok"
         THEN /\ \E d \in docs : result' = [success |-> TRUE, data |-> d, response_time |-> 1]
              /\ pc' = "fetched"
              /\ slept' = 0
              /\ UNCHANGED attempt
         ELSE /\ slept' = Backoff(outcome, attempt)
              /\ attempt' = attempt + 1
              /\ IF attempt + 1 < max_retries
                 THEN pc' = "fetch" /\ UNCHANGED result
                 ELSE pc' = "fetched" /\ result' = FetchFailure
    /\ UNCHANGED <<typed, sample_size, idx, all_metrics, output, params, metrics, datasets,
                   analyzed, lists>>

(***************************************************************************)
(* analyze_country_portal, from the fetch result on.                       *)
(***************************************************************************)
\* the bug of counting the entries of the document instead of the records
CountDatasets_document(data, extracted) == PyLen(data)

\* metrics.total_datasets = len(datasets)
CountDatasets(data, extracted) == PyLen(extracted)

\* lines 256-276: the result check, extract_datasets, len(datasets) and the
\* slice datasets[:sample_size]
CheckResult ==
    /\ pc = "fetched"
    /\ slept' = 0
    /\ IF ~result.success \/ ~Truthy(result.data)
       THEN /\ pc' = "returned"
            /\ UNCHANGED <<metrics, datasets>>
       ELSE LET timed == [metrics EXCEPT !.api_response_time = result.response_time,
                                         !.api_success_rate = 100]
                ex == extract_datasets(result.data, metrics.country)
                counted == [timed EXCEPT !.total_datasets = CountDatasets(result.data, ex)]
            IN  IF ex.kind = "null"          \* len(None): TypeError
                THEN pc' = "except" /\ metrics' = timed /\ datasets' = ex
                ELSE IF ~Truthy(ex)
                THEN pc' = "returned" /\ metrics' = counted /\ datasets' = ex
                ELSE IF ex.kind # "list"     \* a dict cannot be sliced: TypeError
                THEN pc' = "except" /\ metrics' = counted /\ datasets' = ex
                ELSE pc' = "analyze" /\ metrics' = counted /\ datasets' = ex
    /\ UNCHANGED <<typed, sample_size, idx, all_metrics, output, params, attempt, result,
                   analyzed, lists>>

\* one pass of `for dataset in datasets[:sample_size]`
AnalyzeRecord ==
    /\ pc = "analyze"
    /\ Len(analyzed) < Len(sampled)
    /\ LET dataset == sampled[Len(analyzed) + 1]
       IN  /\ analyzed' = Append(analyzed, dataset)
           /\ IF Raises(dataset)
              THEN /\ pc' = "except"
                   /\ UNCHANGED lists
              ELSE /\ pc' = "analyze"
                   /\ all_metadata_scores' =
                        Append(all_metadata_scores, analyze_metadata_standards(dataset))
                   /\ all_license_data' = Append(all_license_data, analyze_licensing(dataset))
                   /\ all_vocabulary_data' =
                        Append(all_vocabulary_data, analyze_vocabularies(dataset))
                   /\ all_multilingual_data' =
                        Append(all_multilingual_data, analyze_multilingual_support(dataset))
                   /\ all_persistent_id_data' =
                        Append(all_persistent_id_data, analyze_persistent_identifiers(dataset))
    /\ slept' = 0
    /\ UNCHANGED <<typed, sample_size, idx, all_metrics, output, params, attempt, result,
                   metrics, datasets>>

\* the loop is over: self.aggregate_metrics(...); return metrics
Aggregate ==
    /\ pc = "analyze"
    /\ Len(analyzed) = Len(sampled)
    /\ metrics' = aggregate_metrics(metrics, all_metadata_scores, all_license_data,
                                    all_vocabulary_data, all_multilingual_data,
                                    all_persistent_id_data)
    /\ pc' = "returned"
    /\ slept' = 0
    /\ UNCHANGED <<typed, sample_size, idx, all_metrics, output, params, attempt, result,
                   datasets, analyzed, lists>>

(***************************************************************************)
(* run_analysis: after analyze_country_portal.                             *)
(***************************************************************************)
\* all_metrics.append(metrics); time.sleep(1)
AppendMetrics ==
    /\ pc = "returned"
    /\ all_metrics' = Append(all_metrics, metrics)
    /\ slept' = rate_limit_pause
    /\ idx' = idx + 1
    /\ pc' = "run"
    /\ LeavePortal
    /\ UNCHANGED <<typed, sample_size, output>>

\* except Exception: logger.error(...); continue
HandleException ==
    /\ pc = "except"
    /\ slept' = 0
    /\ idx' = idx + 1
    /\ pc' = "run"
    /\ LeavePortal
    /\ UNCHANGED <<typed, sample_size, all_metrics, output>>

\* the entries of the JSON file
MetricsJson(ms) == [i \in DOMAIN ms |->
    [country |-> ms[i].country, total_datasets |-> ms[i].total_datasets]]

\* lines 483-514: the "no data" answer, or the report and the JSON file
Finish ==
    /\ pc = "run"
    /\ idx > Len(portals)
    /\ IF all_metrics = <<>>
       THEN /\ output' = [kind |-> "no_data", report |-> NoReport, json |-> <<>>]
            /\ UNCHANGED all_metrics
       ELSE /\ all_metrics' = InputAfterReport(all_metrics)
            /\ output' = [kind |-> "report", report |-> generate_report(all_metrics),
                          json |-> MetricsJson(all_metrics')]
    /\ pc' = "done"
    /\ slept' = 0
    /\ UNCHANGED <<typed, sample_size, idx, locals>>

Next ==
    \/ StartPortal
    \/ FetchAttempt(DocsOf(country, RunLists))
    \/ CheckResult
    \/ AnalyzeRecord
    \/ Aggregate
    \/ AppendMetrics
    \/ HandleException
    \/ Finish

Spec == Init /\ [][Next]_vars

(***************************************************************************)
(* A single analyze_country_portal(country, url, sample_size) call, for    *)
(* any portal of the registry, over all the records.                       *)
(***************************************************************************)
InitPortal ==
    /\ typed = NoInput
    /\ sample_size \in 1..MaxSample
    /\ idx \in DOMAIN portals
    /\ pc = "fetch"
    /\ all_metrics = <<>>
    /\ output = NoOutput
    /\ slept = 0
    /\ params = ParamsOf(portals[idx], sample_size)
    /\ metrics = NewMetrics(portals[idx])
    /\ attempt = 0
    /\ result = FetchFailure
    /\ datasets = List(<<>>)
    /\ analyzed = <<>>
    /\ all_metadata_scores = <<>>
    /\ all_license_data = <<>>
    /\ all_vocabulary_data = <<>>
    /\ all_multilingual_data = <<>>
    /\ all_persistent_id_data = <<>>

NextPortal ==
    \/ FetchAttempt(DocsOf(country, AllLists))
    \/ CheckResult
    \/ AnalyzeRecord
    \/ Aggregate

SpecPortal == InitPortal /\ [][NextPortal]_vars

(***************************************************************************)
(* main: the sample size read from the terminal, up to the call of         *)
(* run_analysis.                                                           *)
(***************************************************************************)
\* a typed line holds at most MaxInput characters
MaxInput == 3

InputChars == {"0", "1", "5", "-", " ", "x"}

DigitValue == "0" :> 0 @@ "1" :> 1 @@ "5" :> 5

\* the lines input() can return
Inputs == SeqsUpTo(InputChars, MaxInput)

\* s.strip(): int() skips the white space around the number
Strip(s) ==
    LET inked == {i \in DOMAIN s : s[i] # " "}
    IN  IF inked = {} THEN <<>>
        ELSE SubSeq(s, CHOOSE i \in inked : \A j \in inked : i <= j,
                       CHOOSE i \in inked : \A j \in inked : j <= i)

RECURSIVE Decimal(_)
\* the value of a sequence of digits
Decimal(digits) ==
    IF digits = <<>> THEN 0
    ELSE 10 * Decimal(SubSeq(digits, 1, Len(digits) - 1)) + DigitValue[digits[Len(digits)]]

\* int(s): ok = FALSE stands for ValueError
PyInt(s) ==
    LET t == Strip(s)
        negative == t # <<>> /\ t[1] = "-"
        digits == IF negative THEN Tail(t) ELSE t
    IN  IF digits = <<>> \/ \E i \in DOMAIN digits : digits[i] \notin DOMAIN DigitValue
        THEN [ok |-> FALSE, value |-> 0]
        ELSE [ok |-> TRUE, value |-> IF negative THEN 0 - Decimal(digits) ELSE Decimal(digits)]

\* sample_size = 50 of the except branch
default_sample_size == 50

\* if sample_size < 1 or sample_size > 500
min_sample_size == 1

max_sample_size == 500

\* input(...) or "50"
DefaultText == <<"5", "0">>

\* the bug of `sample_size >= 500`, which turns the greatest size down
main_sample_size_below_max(text) ==
    LET n == PyInt(IF text = <<>> THEN DefaultText ELSE text)
    IN  IF ~n.ok THEN default_sample_size
        ELSE IF n.value < min_sample_size \/ n.value >= max_sample_size
        THEN default_sample_size
        ELSE n.value

\* lines 530-538: the sample size main works with for the typed text
main_sample_size(text) ==
    LET n == PyInt(IF text = <<>> THEN DefaultText ELSE text)
    IN  IF ~n.ok THEN default_sample_size
        ELSE IF n.value < min_sample_size \/ n.value > max_sample_size
        THEN default_sample_size
        ELSE n.value

InitMain ==
    /\ typed = NoInput
    /\ sample_size = 0
    /\ idx = 1
    /\ pc = "main"
    /\ all_metrics = <<>>
    /\ output = NoOutput
    /\ slept = 0
    /\ NoLocals

\* input("Enter sample size per country (default 50): ")
ReadInput ==
    /\ pc = "main"
    /\ typed' \in Inputs
    /\ pc' = "main_typed"
    /\ UNCHANGED <<sample_size, idx, all_metrics, output, slept, locals>>

\* `or "50"`, int(), the range check and the except branch
ParseSampleSize ==
    /\ pc = "main_typed"
    /\ sample_size' = main_sample_size(typed)
    /\ pc' = "main_call"
    /\ UNCHANGED <<typed, idx, all_metrics, output, slept, locals>>

\* report = analyzer.run_analysis(sample_size)
CallRunAnalysis ==
    /\ pc = "main_call"
    /\ pc' = "run"
    /\ UNCHANGED <<typed, sample_size, idx, all_metrics, output, slept, locals>>

NextMain ==
    \/ ReadInput
    \/ ParseSampleSize
    \/ CallRunAnalysis

SpecMain == InitMain /\ [][NextMain]_vars

(***************************************************************************)
(* The per-record part of analyze_country_portal, lines 278-303, for one   *)
(* record of any fields: the state is the one after line 276 of a call for *)
(* the first portal whose document holds that record.                      *)
(***************************************************************************)
\* a record holds at most MaxFields fields
MaxFields == 2

\* the key/value pairs a record is made of
RecordFields ==
    {Item("notes", Str(<<"dcat:Dataset", "dcat:distribution", "dcat:keyword", "dcat:theme",
                         "dcat:contactPoint", "dcat:publisher", "dcat:temporal",
                         "dcat:spatial">>)),
     Item("tags", Str(<<"dcat:Dataset", "dcat:distribution", "dcat:keyword", "dcat:theme">>)),
     Item("subject", Str(<<"dc:title", "dc:publisher">>)),
     Item("license_url", Str(<<"http://example.org/cc-by">>)),
     Item("homepage", Str(<<"http://example.org/cc-by">>)),
     Item("license", Str(<<"cc-by", "cc-by">>)),
     Item("License", Str(<<"see", "url">>)),
     Item("license", Str(<<>>)),
     Item("notes", Str(<<"odbl", "odbl", "health", "health">>)),
     Item("id", Str(<<"10.1234/abc", "10.1234/abc">>)),
     Item("id", Str(<<"10.1234/abc", "123e4567-e89b-12d3-a456-426614174000">>)),
     Item("pid", Str(<<"urn:isbn:0451450523", "hdl.handle.net/20.500.12345/abc">>)),
     Item("doi", Str(<<"10.1234/abc", "10.1234/abc", "10.1234/abc">>)),
     Item("title", Str(<<"Air">>)),
     Item("name", Str(<<"Title", "Modified">>)),
     Item("extras", Dict(<<Item("title", Str(<<"Air">>))>>))}

\* the records of up to MaxFields fields: a dict holds a key once
FieldRecords ==
    {Dict(fs) : fs \in {f \in SeqsUpTo(RecordFields, MaxFields) :
                            \A i, j \in DOMAIN f : i # j => f[i].k # f[j].k}}

InitRecord ==
    /\ typed = NoInput
    /\ sample_size = 1
    /\ idx = 1
    /\ pc = "analyze"
    /\ all_metrics = <<>>
    /\ output = NoOutput
    /\ slept = 0
    /\ params = ParamsOf(portals[idx], sample_size)
    /\ attempt = 0
    /\ \E dataset \in FieldRecords :
          /\ result = [success |-> TRUE, data |-> CkanDoc(<<dataset>>), response_time |-> 1]
          /\ datasets = List(<<dataset>>)
    /\ metrics = [NewMetrics(portals[idx]) EXCEPT !.api_response_time = result.response_time,
                                                  !.api_success_rate = 100,
                                                  !.total_datasets = PyLen(datasets)]
    /\ analyzed = <<>>
    /\ all_metadata_scores = <<>>
    /\ all_license_data = <<>>
    /\ all_vocabulary_data = <<>>
    /\ all_multilingual_data = <<>>
    /\ all_persistent_id_data = <<>>

NextRecord ==
    \/ AnalyzeRecord
    \/ Aggregate

SpecRecord == InitRecord /\ [][NextRecord]_vars

(***************************************************************************)
(* The last portal of a run whose earlier portals left no metrics, from    *)
(* the per-record loop to the report: the themes of the records, their     *)
(* aggregation and the section of the country.                             *)
(***************************************************************************)
\* records that name themes
ThemeRecords ==
    {Dict(<<Item("tags", Str(<<"economy", "education", "environment", "government",
                               "health", "society">>))>>),
     Dict(<<Item("tags", Str(<<"society">>))>>),
     Dict(<<Item("tags", Str(<<"health", "economy">>))>>),
     Dict(<<Item("name", Str(<<"Air">>))>>)}

InitThemes ==
    /\ typed = NoInput
    /\ sample_size \in 1..MaxSample
    /\ idx = Len(portals)
    /\ pc = "analyze"
    /\ all_metrics = <<>>
    /\ output = NoOutput
    /\ slept = 0
    /\ params = ParamsOf(portals[idx], sample_size)
    /\ attempt = 0
    /\ \E recs \in SeqsUpTo(ThemeRecords, MaxRecords) \ {<<>>} :
          /\ result = [success |-> TRUE, data |-> DataDoc(recs), response_time |-> 1]
          /\ datasets = List(recs)
    /\ metrics = [NewMetrics(portals[idx]) EXCEPT !.api_response_time = result.response_time,
                                                  !.api_success_rate = 100,
                                                  !.total_datasets = PyLen(datasets)]
    /\ analyzed = <<>>
    /\ all_metadata_scores = <<>>
    /\ all_license_data = <<>>
    /\ all_vocabulary_data = <<>>
    /\ all_multilingual_data = <<>>
    /\ all_persistent_id_data = <<>>

NextThemes ==
    \/ AnalyzeRecord
    \/ Aggregate
    \/ AppendMetrics
    \/ Finish

SpecThemes == InitThemes /\ [][NextThemes]_vars

(***************************************************************************)
(* A single generate_report(all_metrics) call on a collection of metrics   *)
(* of distinct countries.                                                  *)
(***************************************************************************)
\* a collection holds at most MaxCountries metrics
MaxCountries == 3

\* a metrics object with the three scores the report compares
Scored(c, dcat, multilingual, licensing) ==
    [NewMetrics(c) EXCEPT !.total_datasets = 5,
                          !.dcat_compliance_score = Rat(dcat, 1),
                          !.multilingual_support_score = Rat(multilingual, 1),
                          !.automated_license_detection_score = Rat(licensing, 1),
                          !.api_success_rate = 100]

MetricsOfCountry(c) ==
    {NewMetrics(c), Scored(c, 60, 0, 50), Scored(c, 80, 20, 100),
     Scored(c, 80, 0, 50), Scored(c, 95, 20, 50)}

Collections ==
    {ms \in UNION {[1..n -> UNION {MetricsOfCountry(portals[i]) : i \in DOMAIN portals}] :
                      n \in 0..MaxCountries} :
        \A i, j \in DOMAIN ms : i # j => ms[i].country # ms[j].country}

InitReport ==
    /\ typed = NoInput
    /\ sample_size = 1
    /\ idx = 1
    /\ pc = "report_call"
    /\ all_metrics \in Collections
    /\ output = NoOutput
    /\ slept = 0
    /\ NoLocals

GenerateReport ==
    /\ pc = "report_call"
    /\ output' = [kind |-> "report", report |-> generate_report(all_metrics), json |-> <<>>]
    /\ all_metrics' = InputAfterReport(all_metrics)
    /\ pc' = "reported"
    /\ UNCHANGED <<typed, sample_size, idx, slept, locals>>

SpecReport == InitReport /\ [][GenerateReport]_vars

(***************************************************************************)
(* Properties.                                                             *)
(***************************************************************************)
ScoreFields ==
    {"dcat_compliance_score", "dublin_core_compliance_score", "metadata_completeness_score",
     "automated_license_detection_score", "standardized_terminology_score",
     "multilingual_support_score", "persistent_id_score"}

CountFields ==
    {"cc_licenses", "odbl_licenses", "doi_count", "urn_count", "uuid_count", "handle_count"}

\* total_datasets, every score and every count 0, the collections empty
ZeroValued(m) ==
    /\ m.total_datasets = 0
    /\ \A f \in ScoreFields : m[f] = Rat(0, 1)
    /\ \A f \in CountFields : m[f] = 0
    /\ m.license_variety = <<>>
    /\ m.supported_languages = <<>>
    /\ m.taxonomy_usage = <<>>

\* the fetch reported failure (or an empty document), or no record was extracted
NothingToAnalyze ==
    \/ ~result.success
    \/ ~Truthy(result.data)
    \/ datasets.kind \in {"list", "dict"} /\ PyLen(datasets) = 0

SectionCountries(report) == {report.sections[j].country : j \in DOMAIN report.sections}

\* C1: when run_analysis is done, every configured portal - also one whose
\* analysis failed by a fetch failure, by zero records or by a raised error -
\* has its entry in the collection, in registry order, and in the report.
C1_EveryPortalHasAnEntry ==
    pc = "done" =>
        /\ Len(all_metrics) = Len(portals)
        /\ \A i \in DOMAIN portals : all_metrics[i].country = portals[i]
        /\ output.kind = "report"
        /\ SectionCountries(output.report) = Range(portals)

\* C2: analyze_country_portal returns a zero-valued metrics object of its
\* country, and does not raise, when the fetch failed or no record was
\* extracted; a report built from a collection with such entries did not raise
\* and has a section with zero total for each of them.
C2_ZeroMetricsWhenNothingToAnalyze ==
    /\ (pc = "returned" /\ NothingToAnalyze) =>
          ZeroValued(metrics) /\ metrics.country = country
    /\ pc = "except" => ~NothingToAnalyze
    /\ (pc = "done" /\ output.kind = "report") =>
          /\ ~output.report.raised
          /\ \A i \in DOMAIN all_metrics :
                ZeroValued(all_metrics[i]) =>
                    \E j \in DOMAIN output.report.sections :
                        /\ output.report.sections[j].country = all_metrics[i].country
                        /\ output.report.sections[j].total_datasets = 0

\* a finished run whose report holds a country whose fetch failed and a
\* country that answered with no record
C2_Witness ==
    /\ pc = "done"
    /\ output.kind = "report"
    /\ \E i, j \in DOMAIN all_metrics :
          /\ ZeroValued(all_metrics[i]) /\ all_metrics[i].api_success_rate = 0
          /\ ZeroValued(all_metrics[j]) /\ all_metrics[j].api_success_rate = 100
          /\ {all_metrics[i].country, all_metrics[j].country}
                \subseteq SectionCountries(output.report)

\* C3: once analyze_country_portal is over for an extracted sequence of
\* n >= 1 records, the analyzers were handed exactly the first
\* min(n, sample_size) records, in arrival order, and each of the five result
\* lists holds that analyzer's result for each of them.
C3_FiveAnalyzersOverTheSample ==
    (pc \in {"returned", "except"} /\ datasets.kind = "list" /\ PyLen(datasets) > 0) =>
        LET m == Min(PyLen(datasets), sample_size)
        IN  /\ analyzed = SubSeq(Elems(datasets), 1, m)
            /\ \A i \in 1..5 : Len(lists[i]) = m
            /\ \A j \in 1..m :
                  /\ all_metadata_scores[j] = analyze_metadata_standards(analyzed[j])
                  /\ all_license_data[j] = analyze_licensing(analyzed[j])
                  /\ all_vocabulary_data[j] = analyze_vocabularies(analyzed[j])
                  /\ all_multilingual_data[j] = analyze_multilingual_support(analyzed[j])
                  /\ all_persistent_id_data[j] = analyze_persistent_identifiers(analyzed[j])

\* C4: in the metrics analyze_country_portal returns, total_datasets is the
\* number of records the analyzers ran over, so it is at most the sample size.
C4_TotalIsTheSampledCount ==
    pc = "returned" =>
        /\ metrics.total_datasets = Len(all_metadata_scores)
        /\ metrics.total_datasets <= sample_size

RECURSIVE RatSumOver(_, _)
\* the sum of s[i], i in I, in no particular order
RatSumOver(s, I) ==
    IF I = {} THEN Rat(0, 1)
    ELSE LET i == CHOOSE j \in I : TRUE IN RatAdd(s[i], RatSumOver(s, I \ {i}))

RECURSIVE IntSumOver(_, _)
IntSumOver(s, I) ==
    IF I = {} THEN 0
    ELSE LET i == CHOOSE j \in I : TRUE IN s[i] + IntSumOver(s, I \ {i})

\* x is the arithmetic mean of the non-empty list s: x * len(s) = sum of s
IsMeanOf(x, s) == RatEq(Rat(x.num * Len(s), x.den), RatSumOver(s, DOMAIN s))

IsSumOf(n, s) == n = IntSumOver(s, DOMAIN s)

NoDuplicates(s) == \A i, j \in DOMAIN s : i # j => s[i] # s[j]

\* l lists each element of the lists parts[i][f] once, and nothing else
IsUnionOf(l, parts, f) ==
    /\ NoDuplicates(l)
    /\ Range(l) = UNION {Range(parts[i][f]) : i \in DOMAIN parts}

\* m maps each theme to the sum of its counts in the theme_matches of parts
IsKeywiseSumOf(m, parts) ==
    /\ NoDuplicates(MapKeys(m))
    /\ Range(MapKeys(m)) = UNION {Range(MapKeys(parts[i].theme_matches)) : i \in DOMAIN parts}
    /\ \A t \in Range(standard_themes) :
          IsSumOf(MapGet(m, t), [i \in DOMAIN parts |-> MapGet(parts[i].theme_matches, t)])

\* C5: the metrics aggregate_metrics filled from non-empty lists hold the
\* arithmetic mean in every score, the sum in every count, the duplicate-free
\* union in license_variety and supported_languages and the key-wise sum in
\* taxonomy_usage; called with empty lists it leaves the metrics as they are.
C5_AggregateFolds ==
    /\ aggregate_metrics(metrics, <<>>, <<>>, <<>>, <<>>, <<>>) = metrics
    /\ (pc = "returned" /\ all_metadata_scores # <<>>) =>
          /\ IsMeanOf(metrics.dcat_compliance_score, Col(all_metadata_scores, "dcat_score"))
          /\ IsMeanOf(metrics.dublin_core_compliance_score,
                      Col(all_metadata_scores, "dublin_core_score"))
          /\ IsMeanOf(metrics.metadata_completeness_score,
                      Col(all_metadata_scores, "completeness_score"))
          /\ IsMeanOf(metrics.automated_license_detection_score,
                      Col(all_license_data, "automation_score"))
          /\ IsMeanOf(metrics.standardized_terminology_score,
                      Col(all_vocabulary_data, "standardization_score"))
          /\ IsMeanOf(metrics.multilingual_support_score,
                      Col(all_multilingual_data, "multilingual_score"))
          /\ IsMeanOf(metrics.persistent_id_score,
                      Col(all_persistent_id_data, "persistence_score"))
          /\ IsSumOf(metrics.cc_licenses, Col(all_license_data, "cc_licenses"))
          /\ IsSumOf(metrics.odbl_licenses, Col(all_license_data, "odbl_licenses"))
          /\ IsSumOf(metrics.doi_count, Col(all_persistent_id_data, "doi"))
          /\ IsSumOf(metrics.urn_count, Col(all_persistent_id_data, "urn"))
          /\ IsSumOf(metrics.uuid_count, Col(all_persistent_id_data, "uuid"))
          /\ IsSumOf(metrics.handle_count, Col(all_persistent_id_data, "handle"))
          /\ IsUnionOf(metrics.license_variety, all_license_data, "license_variety")
          /\ IsUnionOf(metrics.supported_languages, all_multilingual_data,
                       "detected_languages")
          /\ IsKeywiseSumOf(metrics.taxonomy_usage, all_vocabulary_data)

\* metrics aggregated from two records that share a theme and a license
\* string and differ in their scores
C5_Witness ==
    /\ pc = "returned"
    /\ Len(all_metadata_scores) = 2
    /\ \E i \in DOMAIN metrics.taxonomy_usage : metrics.taxonomy_usage[i].n = 2
    /\ Len(metrics.license_variety) = 1
    /\ Len(Flatten(Col(all_license_data, "license_variety"))) = 2
    /\ all_metadata_scores[1].dcat_score # all_metadata_scores[2].dcat_score
    /\ metrics.doi_count > 0

\* the five result lists in the order p, aggregated
FoldPermuted(base, p) ==
    aggregate_metrics(base,
        [i \in DOMAIN p |-> all_metadata_scores[p[i]]],
        [i \in DOMAIN p |-> all_license_data[p[i]]],
        [i \in DOMAIN p |-> all_vocabulary_data[p[i]]],
        [i \in DOMAIN p |-> all_multilingual_data[p[i]]],
        [i \in DOMAIN p |-> all_persistent_id_data[p[i]]])

\* equal counts and means, the same licenses and languages, the same
\* theme -> count mapping
SameAggregate(a, b) ==
    /\ \A f \in CountFields : a[f] = b[f]
    /\ \A f \in ScoreFields : RatEq(a[f], b[f])
    /\ Range(a.license_variety) = Range(b.license_variety)
    /\ Len(a.license_variety) = Len(b.license_variety)
    /\ Range(a.supported_languages) = Range(b.supported_languages)
    /\ Len(a.supported_languages) = Len(b.supported_languages)
    /\ Range(MapKeys(a.taxonomy_usage)) = Range(MapKeys(b.taxonomy_usage))
    /\ \A t \in Range(standard_themes) : MapGet(a.taxonomy_usage, t) = MapGet(b.taxonomy_usage, t)

\* C6: the metrics aggregated from the analyzed records equal, in every
\* count, mean, union and theme mapping, the metrics aggregated from the
\* analyzer results of any permutation of these records.
C6_AggregationIsOrderIndependent ==
    (pc = "returned" /\ analyzed # <<>>) =>
        \A p \in Permutations(DOMAIN analyzed) :
            SameAggregate(metrics, FoldPermuted(NewMetrics(metrics.country), p))

\* metrics aggregated from two different records with different scores,
\* themes and languages
C6_Witness ==
    /\ pc = "returned"
    /\ Len(analyzed) = 2
    /\ analyzed[1] # analyzed[2]
    /\ all_metadata_scores[1].dcat_score # all_metadata_scores[2].dcat_score
    /\ all_vocabulary_data[1].theme_matches # all_vocabulary_data[2].theme_matches
    /\ all_vocabulary_data[1].theme_matches # <<>>
    /\ all_vocabulary_data[2].theme_matches # <<>>
    /\ Len(metrics.taxonomy_usage) = 2

InRange(x) == x.den > 0 /\ 0 <= x.num /\ x.num <= 100 * x.den

\* C7: every score an analyzer returned lies in [0, 100], and in the metrics
\* analyze_country_portal returns every score lies in [0, 100], every count
\* is a non-negative integer and license_variety and supported_languages
\* hold no element twice.
C7_ScoresInRange ==
    /\ \A i \in DOMAIN all_metadata_scores :
          /\ InRange(all_metadata_scores[i].dcat_score)
          /\ InRange(all_metadata_scores[i].dublin_core_score)
          /\ InRange(all_metadata_scores[i].completeness_score)
          /\ InRange(all_license_data[i].automation_score)
          /\ InRange(all_vocabulary_data[i].standardization_score)
          /\ InRange(all_multilingual_data[i].multilingual_score)
          /\ InRange(all_persistent_id_data[i].persistence_score)
    /\ pc = "returned" =>
          /\ \A f \in ScoreFields : InRange(metrics[f])
          /\ \A f \in CountFields \cup {"total_datasets"} : metrics[f] \in Nat
          /\ NoDuplicates(metrics.license_variety)
          /\ NoDuplicates(metrics.supported_languages)

\* metrics of a record with more than four identifiers (the cap of the
\* persistence score applies) and of a second record with a license
C7_Witness ==
    /\ pc = "returned"
    /\ Len(analyzed) = 2
    /\ all_persistent_id_data[1].doi > 4
    /\ all_persistent_id_data[1].persistence_score = Rat(100, 1)
    /\ metrics.license_variety # <<>>
    /\ metrics.supported_languages # <<>>

\* the place in all_metrics of the one entry of country c
PlaceOf(c) == CHOOSE i \in DOMAIN all_metrics : all_metrics[i].country = c

\* the entry of country c is the first of all_metrics with the greatest
\* value of field key
IsFirstGreatest(c, key) ==
    \A i \in DOMAIN all_metrics :
        /\ RatLe(all_metrics[i][key], all_metrics[PlaceOf(c)][key])
        /\ RatEq(all_metrics[i][key], all_metrics[PlaceOf(c)][key]) => PlaceOf(c) <= i

IsFirstSmallest(c, key) ==
    \A i \in DOMAIN all_metrics :
        /\ RatLe(all_metrics[PlaceOf(c)][key], all_metrics[i][key])
        /\ RatEq(all_metrics[i][key], all_metrics[PlaceOf(c)][key]) => PlaceOf(c) <= i

DcatScores(ms) == [i \in DOMAIN ms |-> ms[i].dcat_compliance_score]

\* C8: the report of a non-empty collection has one section per entry, in
\* descending order of dcat_compliance_score with equal scores in input
\* order; the leader, the country to improve, the best multilingual and the
\* best licensing country are the first entries of the input with the
\* greatest (smallest) score; scores 80, 95, 60 give the sections
\* [95, 80, 60], the leader 95 and the country to improve 60.
C8_ReportOrderAndLeaders ==
    (pc = "reported" /\ all_metrics # <<>>) =>
        LET r == output.report
            sec == r.sections
        IN  /\ ~r.raised
            /\ Len(sec) = Len(all_metrics)
            /\ SectionCountries(r) = {all_metrics[i].country : i \in DOMAIN all_metrics}
            /\ \A j, k \in DOMAIN sec :
                  j < k =>
                    /\ RatLe(sec[k].dcat_compliance_score, sec[j].dcat_compliance_score)
                    /\ RatEq(sec[k].dcat_compliance_score, sec[j].dcat_compliance_score)
                          => PlaceOf(sec[j].country) < PlaceOf(sec[k].country)
            /\ \A j \in DOMAIN sec :
                  sec[j].dcat_compliance_score =
                      all_metrics[PlaceOf(sec[j].country)].dcat_compliance_score
            /\ IsFirstGreatest(r.best_dcat, "dcat_compliance_score")
            /\ IsFirstSmallest(r.worst_dcat, "dcat_compliance_score")
            /\ IsFirstGreatest(r.best_multilingual, "multilingual_support_score")
            /\ IsFirstGreatest(r.best_licensing, "automated_license_detection_score")
            /\ DcatScores(all_metrics) = <<Rat(80, 1), Rat(95, 1), Rat(60, 1)>> =>
                  /\ DcatScores(sec) = <<Rat(95, 1), Rat(80, 1), Rat(60, 1)>>
                  /\ r.best_dcat = all_metrics[2].country
                  /\ r.worst_dcat = all_metrics[3].country

\* a report of three countries, the first and the third with the same DCAT
\* score below the second's and with different multilingual scores
C8_Witness ==
    /\ pc = "reported"
    /\ DcatScores(all_metrics) = <<Rat(80, 1), Rat(95, 1), Rat(80, 1)>>
    /\ all_metrics[1].multilingual_support_score # all_metrics[3].multilingual_support_score
    /\ [j \in DOMAIN output.report.sections |-> output.report.sections[j].country]
          = <<all_metrics[2].country, all_metrics[1].country, all_metrics[3].country>>
    /\ output.report.worst_dcat = all_metrics[1].country

\* C9: run_analysis ends with the "no data" answer exactly when it collected
\* no metrics, and then builds no report and raises nothing; otherwise its
\* report covers every collected country; and generate_report, called with
\* an empty collection, reports "no data" and does not raise.
C9_NoDataIffNothingCollected ==
    /\ pc = "done" =>
          /\ output.kind = "no_data" <=> all_metrics = <<>>
          /\ ~output.report.raised
          /\ output.kind = "no_data" => output.report = NoReport
          /\ output.kind = "report" =>
                SectionCountries(output.report)
                    = {all_metrics[i].country : i \in DOMAIN all_metrics}
    /\ (pc = "reported" /\ all_metrics = <<>>) => ~output.report.raised

\* C10: fetch_data_with_retry makes at most max_retries attempts, reports
\* failure only after the last of them, and sleeps 2^attempt seconds after
\* every failed attempt that is not the last one, whatever made it fail.
C10_BackoffAfterEveryFailedAttempt ==
    [][/\ pc = "fetch" => attempt < max_retries
       /\ (pc = "fetch" /\ pc' = "fetched" /\ ~result'.success) => attempt' = max_retries
       /\ (pc = "fetch" /\ pc' = "fetch") => attempt' = attempt + 1 /\ slept' = 2 ^ attempt]_vars

\* v is a JSON array
IsList(v) == v.kind = "list"

\* the document has the envelope its portal answers with
ExpectedShape(data, c) ==
    CASE c \in {"Germany", "Netherlands"} ->
           /\ HasKey(data, "result")
           /\ HasKey(Get(data, "result"), "results")
           /\ IsList(Get(Get(data, "result"), "results"))
      [] c = "Italy" -> HasKey(data, "result") /\ IsList(Get(data, "result"))
      [] c = "France" -> HasKey(data, "data") /\ IsList(Get(data, "data"))
      [] c = "Spain" -> IsList(data) \/ (HasKey(data, "result") /\ IsList(Get(data, "result")))
      [] OTHER -> FALSE

\* analyze_country_portal went past its call of extract_datasets
Extracted == pc \in {"analyze", "returned", "except"} /\ result.success /\ Truthy(result.data)

\* C11: what extract_datasets returned is a list, for every document and
\* portal, and it is the empty list when the document has not the envelope
\* of the portal.
C11_ExtractReturnsAList ==
    Extracted =>
        /\ IsList(datasets)
        /\ ~ExpectedShape(result.data, country) => datasets = List(<<>>)

\* C12: no analyzer raises on a record the extractor delivered: each of the
\* five analyzers has returned a result for every record handed to them,
\* and analyze_country_portal is not left by an exception once it has a
\* list of records.
C12_AnalyzersNeverRaise ==
    (Extracted /\ IsList(datasets)) =>
        /\ \A k \in 1..5 : Len(lists[k]) = Len(analyzed)
        /\ pc # "except"

\* C13: generate_report does not change its input: over the call the
\* collection keeps its elements, their order and every field of every
\* metrics object.
C13_ReportLeavesInputUnchanged ==
    [][(pc = "report_call" /\ pc' = "reported") => all_metrics' = all_metrics]_vars

\* a report whose sections come in another order than the three metrics of
\* its input
C13_Witness ==
    /\ pc = "reported"
    /\ Len(all_metrics) = 3
    /\ ~output.report.raised
    /\ [j \in DOMAIN output.report.sections |-> output.report.sections[j].country]
          # [i \in DOMAIN all_metrics |-> all_metrics[i].country]

\* the one record of the call has been through the five analyzers
Analyzed(dataset) == analyzed = <<dataset>> /\ \A k \in 1..5 : Len(lists[k]) = 1

\* C14: for the empty record every analyzer returns zeros: every score and
\* every count is 0, and license_variety, theme_matches and
\* detected_languages are empty.
C14_EmptyRecordAllZero ==
    Analyzed(Dict(<<>>)) =>
        /\ all_metadata_scores[1] =
              [dcat_score |-> Rat(0, 1), dublin_core_score |-> Rat(0, 1),
               completeness_score |-> Rat(0, 1)]
        /\ all_license_data[1] =
              [cc_licenses |-> 0, odbl_licenses |-> 0, automation_score |-> Rat(0, 1),
               license_variety |-> <<>>]
        /\ all_vocabulary_data[1] = [standardization_score |-> Rat(0, 1), theme_matches |-> <<>>]
        /\ all_multilingual_data[1] = [multilingual_score |-> Rat(0, 1), detected_languages |-> <<>>]
        /\ all_persistent_id_data[1] =
              [doi |-> 0, urn |-> 0, uuid |-> 0, handle |-> 0, persistence_score |-> Rat(0, 1)]

\* the call for the empty record has returned its metrics
C14_Witness ==
    /\ pc = "returned"
    /\ Analyzed(Dict(<<>>))
    /\ ZeroValued([metrics EXCEPT !.total_datasets = 0])

\* the tokens of fields that occur, whatever their case, in a word of the
\* serialized record
Hits(fields, dataset) ==
    {f \in Range(fields) : \E w \in Range(Ser(dataset)) : Lower(f) \in PatternsIn(Lower(w))}

\* C15: the DCAT score is the number of the 8 DCAT tokens that occur in the
\* serialized record, over 8, times 100, and the Dublin Core score the same
\* over the 15 Dublin Core tokens: 100 for a record with every DCAT token, 50
\* for one with exactly half of them, and a DCAT token adds nothing to the
\* Dublin Core score nor a Dublin Core token to the DCAT score.
C15_StandardsScoresAreRatios ==
    (Len(analyzed) = 1 /\ Len(all_metadata_scores) = 1) =>
        LET dataset == analyzed[1]
            scores == all_metadata_scores[1]
            dcat == Cardinality(Hits(dcat_fields, dataset))
            dc == Cardinality(Hits(dublin_core_fields, dataset))
        IN  /\ Len(dcat_fields) = 8 /\ Len(dublin_core_fields) = 15
            /\ scores.dcat_score = Rat(dcat * 100, 8)
            /\ scores.dublin_core_score = Rat(dc * 100, 15)
            /\ dcat = 8 => scores.dcat_score = Rat(100, 1)
            /\ dcat = 4 => scores.dcat_score = Rat(50, 1)
            /\ dc = 0 => scores.dublin_core_score = Rat(0, 1)
            /\ dcat = 0 => scores.dcat_score = Rat(0, 1)

\* a record with half of the DCAT tokens and two Dublin Core tokens has been
\* analyzed
C15_Witness ==
    /\ Len(analyzed) = 1 /\ Len(all_metadata_scores) = 1
    /\ Cardinality(Hits(dcat_fields, analyzed[1])) = 4
    /\ Cardinality(Hits(dublin_core_fields, analyzed[1])) = 2
    /\ all_metadata_scores[1].dcat_score = Rat(50, 1)
    /\ all_metadata_scores[1].dublin_core_score = Rat(40, 3)

\* some word of str(v) holds the marker
HasMarker(marker, v) == \E w \in Range(PyStr(v)) : marker \in PatternsIn(w)

\* the fields of the record whose key holds 'license', whatever its case
LicenseKeyed(dataset) ==
    {i \in DOMAIN dataset.items : "license" \in PatternsIn(Lower(dataset.items[i].k))}

\* 50 for a flag that is set
Fifty(flag) == IF flag THEN 50 ELSE 0

\* C16: the structured-license flag is set iff a top-level key holds
\* 'license', the license-URL flag iff the value under such a key holds an
\* HTTP marker, and the automation score is 50 times the one plus 50 times
\* the other: 50 for a license key whose value has no HTTP marker, 100 for
\* "license_url": "http://example.org/cc-by".
C16_LicenseFlags ==
    (Len(analyzed) = 1 /\ Len(all_license_data) = 1) =>
        LET dataset == analyzed[1]
            structured == LicenseKeyed(dataset) # {}
            url == \E i \in LicenseKeyed(dataset) : HasMarker("http", dataset.items[i].v)
        IN  all_license_data[1].automation_score = Rat(Fifty(structured) + Fifty(url), 1)

\* C16, amended: the license-URL flag is set iff a non-empty value under a
\* key that holds 'license' holds 'http' or 'url' in its str() form.
C16_LicenseFlagsHttpOrUrl ==
    (Len(analyzed) = 1 /\ Len(all_license_data) = 1) =>
        LET dataset == analyzed[1]
            structured == LicenseKeyed(dataset) # {}
            url == \E i \in LicenseKeyed(dataset) :
                      /\ Truthy(dataset.items[i].v)
                      /\ HasMarker("http", dataset.items[i].v) \/ HasMarker("url", dataset.items[i].v)
        IN  /\ all_license_data[1].automation_score = Rat(Fifty(structured) + Fifty(url), 1)
            /\ dataset = Dict(<<Item("license_url", Str(<<"http://example.org/cc-by">>))>>)
                  => all_license_data[1].automation_score = Rat(100, 1)
            /\ dataset = Dict(<<Item("license", Str(<<"cc-by", "cc-by">>))>>)
                  => all_license_data[1].automation_score = Rat(50, 1)

\* a record whose license value holds 'url' and no 'http', next to a link
\* under a key that is no license key, has been scored 100
C16_Witness ==
    /\ Len(analyzed) = 1 /\ Len(all_license_data) = 1
    /\ analyzed[1] = Dict(<<Item("homepage", Str(<<"http://example.org/cc-by">>)),
                           Item("License", Str(<<"see", "url">>))>>)
    /\ all_license_data[1].automation_score = Rat(100, 1)

\* the number of words of the lower-cased serialized record that hold p
Occurrences(p, dataset) ==
    LET words == LowerToks(Ser(dataset))
    IN  Cardinality({i \in DOMAIN words : p \in PatternsIn(words[i])})

\* the number of matches of the pattern of id_type in the serialized record
IdOccurrences(id_type, dataset) ==
    LET words == Ser(dataset)
    IN  SumInts([i \in DOMAIN words |-> IdMatches(words[i])[id_type]])

\* C17: within a record every occurrence counts: cc_licenses is the number
\* of occurrences of the Creative-Commons tokens, odbl_licenses that of the
\* ODbL token, the entry of a theme in theme_matches that of the theme word,
\* and the count of an identifier type that of its pattern.
C17_EveryOccurrenceCounts ==
    (Len(analyzed) = 1 /\ \A k \in 1..5 : Len(lists[k]) = 1) =>
        LET dataset == analyzed[1]
        IN  /\ all_license_data[1].cc_licenses =
                  SumInts([i \in DOMAIN cc_licenses |-> Occurrences(cc_licenses[i], dataset)])
            /\ all_license_data[1].odbl_licenses = Occurrences("odbl", dataset)
            /\ \A i \in DOMAIN standard_themes :
                  MapGet(all_vocabulary_data[1].theme_matches, standard_themes[i])
                      = Occurrences(standard_themes[i], dataset)
            /\ \A id_type \in {"doi", "urn", "uuid", "handle"} :
                  all_persistent_id_data[1][id_type] = IdOccurrences(id_type, dataset)

IsNumeral(text) == text # <<>> /\ \A i \in DOMAIN text : text[i] \in {"0", "1", "5"}

\* C19: the sample size main passes to run_analysis is in 1..500: 50 for an
\* empty line, for a text that is no integer and for an integer out of
\* 1..500, and the typed integer when it is in 1..500.
C19_SampleSizeInBounds ==
    pc \in {"main_call", "run"} =>
        /\ sample_size \in 1..500
        /\ typed = <<>> => sample_size = 50
        /\ typed = <<"x">> => sample_size = 50
        /\ typed = <<"1", "x">> => sample_size = 50
        /\ typed = <<"-">> => sample_size = 50
        /\ typed = <<" ">> => sample_size = 50
        /\ typed = <<"0">> => sample_size = 50
        /\ typed = <<"-", "1">> => sample_size = 50
        /\ typed = <<"5", "0", "1">> => sample_size = 50
        /\ typed = <<"5", "0", "0">> => sample_size = 500
        /\ typed = <<"1">> => sample_size = 1
        /\ typed = <<"1", "5">> => sample_size = 15
        /\ IsNumeral(typed) =>
              sample_size = IF Decimal(typed) \in 1..500 THEN Decimal(typed) ELSE 50

\* main calls run_analysis with 50 after 501 was typed
C19_Witness ==
    /\ pc = "run"
    /\ typed = <<"5", "0", "1">>
    /\ sample_size = 50

RECURSIVE ValueWords(_)
\* the words of the value content of v: of a nested document the words of
\* its values, never its keys
ValueWords(v) ==
    CASE v.kind = "str" -> Range(v.toks)
      [] v.kind = "null" -> {}
      [] OTHER -> UNION {ValueWords(v.items[i].v) : i \in DOMAIN v.items}

\* C20: the completeness score is the number of the five essential words
\* that occur, whatever their case, in the value content of the record, over
\* five, times 100; a word that is only a key, at the top level or in a
\* nested document, adds nothing.
C20_CompletenessOverValuesOnly ==
    (Len(analyzed) = 1 /\ Len(all_metadata_scores) = 1) =>
        LET found == {j \in DOMAIN essential_fields :
                         \E w \in ValueWords(analyzed[1]) :
                             essential_fields[j] \in PatternsIn(Lower(w))}
        IN  all_metadata_scores[1].completeness_score = Rat(Cardinality(found) * 100, 5)

\* C21: run_analysis takes the portals one at a time in registry order: an
\* analysis starts only when none is under way, for the portal that follows
\* the one last left; and whenever a country's analysis is left, by a return
\* (also after a failed fetch) or by a raised error, the fixed pause comes
\* before the next country's fetch.
C21_PauseBetweenPortals ==
    [][/\ pc' = "fetch" => (pc \in {"run", "fetch"} /\ UNCHANGED idx)
       /\ (pc = "run" /\ pc' = "fetch") => metrics'.country = portals[idx]
       /\ (pc \in {"returned", "except"} /\ pc' = "run") =>
             /\ idx' = idx + 1
             /\ idx < Len(portals) => slept' = rate_limit_pause]_vars

\* themes are up to five keys of usage, each once, and no key left out has
\* a greater count than a listed one
AreTopThemes(themes, usage) ==
    /\ Len(themes) = Min(5, Len(usage))
    /\ NoDuplicates(themes)
    /\ Range(themes) \subseteq Range(MapKeys(usage))
    /\ \A t \in Range(themes) :
          \A u \in Range(MapKeys(usage)) \ Range(themes) : MapGet(usage, u) <= MapGet(usage, t)

\* C22: the themes a report section lists are the up to five themes of the
\* greatest counts in the taxonomy_usage of its country, and the themes
\* listed for the metrics of a country are the same for every order of its
\* records.
C22_TopThemesByCount ==
    /\ (pc = "done" /\ output.kind = "report") =>
          \A j \in DOMAIN output.report.sections :
              AreTopThemes(output.report.sections[j].top_themes,
                           all_metrics[PlaceOf(output.report.sections[j].country)].taxonomy_usage)
    /\ (pc = "returned" /\ analyzed # <<>>) =>
          \A p \in Permutations(DOMAIN analyzed) :
              Range(Section(FoldPermuted(NewMetrics(metrics.country), p)).top_themes)
                  = Range(Section(metrics).top_themes)

=============================================================================
